---- MODULE Spec2Model ----
(***************************************************************************)
(* Model of bisecter.py: a helper for `git bisect` that ranks the commits  *)
(* of the bisect range by the expected number of derivations to rebuild.   *)
(*                                                                         *)
(* Commits are the integers 1..NumCommits; the integer order stands for    *)
(* the lexicographic order of the 40-digit hashes.  Text (cache keys,      *)
(* command tokens, cache files) is a sequence of one-character strings.    *)
(***************************************************************************)
EXTENDS Integers, Sequences, FiniteSets, TLC

\* ------------------------------------------------------------------------
\* Bounds of the model
\* ------------------------------------------------------------------------
NumCommits == 5
MaxGoods == 2
NumDrvs == 2
MaxRuns == 2
MaxTokenLen == 2
MaxTokens == 2

Commits == 1..NumCommits
DrvPath == <<"/nix/store/a.drv", "/nix/store/b.drv", "/nix/store/c.drv", "/nix/store/d.drv">>
Drvs == { DrvPath[k] : k \in 1..NumDrvs }

\* ------------------------------------------------------------------------
\* The repository: a commit graph, and `git log` / `git rev-parse`
\* ------------------------------------------------------------------------
VARIABLES parents, refBad, refGoods, built, cache, cwd, tmpdir, registered, head,
          pc, runs, cmd, wantCheckout, goods, commits, n, rebuilds, i, exc, pwd,
          scope, weights, ranked, rows, last, firstRaw, keyArgs, keys

repoVars == <<parents, refBad, refGoods>>
envVars == <<built, cache, cwd, tmpdir, registered, head>>
argVars == <<cmd, wantCheckout>>
rangeVars == <<goods, commits, n>>
scopeVars == <<pwd, scope>>
oracleVars == <<rebuilds, i, exc, last, firstRaw>>
rankVars == <<weights, ranked, rows>>
keyVars == <<keyArgs, keys>>
vars == <<repoVars, envVars, argVars, rangeVars, scopeVars, oracleVars, rankVars, pc, runs, keyVars>>

\* commit graphs of a repository with one root: every later commit has one
\* or two parents among the two commits created just before it (a commit on
\* the same line, a commit that starts or ends a side line, a merge)
ParentDistances == {1, 2}

ParentChoices(c) ==
  { S \in SUBSET { d \in Commits : c - d \in ParentDistances } : c > 1 => S # {} }

RECURSIVE HistoriesUpTo(_)
HistoriesUpTo(k) ==
  IF k = 0 THEN { <<>> }
  ELSE { Append(p, S) : p \in HistoriesUpTo(k - 1), S \in ParentChoices(k) }

Histories == HistoriesUpTo(NumCommits)

\* the histories without a merge or a branch: commit c follows commit c - 1
LinearHistories == { p \in Histories : \A c \in Commits : c > 1 => p[c] = {c - 1} }

\* the sets of good refs that `git bisect good` can have left
GoodRefs == { g \in SUBSET Commits : Cardinality(g) <= MaxGoods }

RECURSIVE Reach(_, _)
\* commits reachable from the set `tips` along parent links, tips included
Reach(tips, fuel) ==
  IF fuel = 0 THEN tips
  ELSE LET next == tips \cup UNION { parents[c] : c \in tips }
       IN IF next = tips THEN tips ELSE Reach(next, fuel - 1)

Ancestors(tips) == Reach(tips, NumCommits)

RECURSIVE Descending(_)
\* the elements of a set of commits, newest commit first
Descending(S) ==
  IF S = {} THEN <<>>
  ELSE LET m == CHOOSE x \in S : \A y \in S : y <= x
       IN <<m>> \o Descending(S \ {m})

\* git log that ignores the commits after --not
GitLog_ignores_not(tip, nots) == Descending(Ancestors({tip}))

\* git log --pretty=oneline <tip> --not <nots>: one line per commit that is
\* reachable from tip and from none of nots, newest first
GitLog(tip, nots) == Descending(Ancestors({tip}) \ Ancestors(nots))

\* git rev-parse: a commit hash resolves to itself
git_rev_parse(rev) == rev

RECURSIVE SelectNot(_, _)
SelectNot(lines, x) ==
  IF lines = <<>> THEN <<>>
  ELSE (IF Head(lines) # x THEN <<Head(lines)>> ELSE <<>>) \o SelectNot(Tail(lines), x)

\* get_bisect_commits without the `commit != bad` test
get_bisect_commits_keeps_bad(bad, gds) == GitLog(git_rev_parse(bad), gds)

\* get_bisect_commits(bad, goods); the caller has checked len(goods) >= 1
get_bisect_commits(bad, gds) ==
  LET b == git_rev_parse(bad)
  IN SelectNot(GitLog(b, gds), b)

SeqToSet(s) == { s[k] : k \in 1..Len(s) }

\* ------------------------------------------------------------------------
\* Cache keys and cache files
\* ------------------------------------------------------------------------
HexDigit == <<"1", "2", "3", "4", "5", "6", "7", "8", "9", "a", "b", "c">>

\* the hash of a commit as text
CommitText(c) == <<HexDigit[c]>>

RECURSIVE Join(_, _)
\* sep.join(tokens)
Join(sep, tokens) ==
  IF tokens = <<>> THEN <<>>
  ELSE IF Len(tokens) = 1 THEN Head(tokens)
  ELSE Head(tokens) \o sep \o Join(sep, Tail(tokens))

\* commit + ";" + ";".join(cmd)
KeyString(commitText, tokens) == commitText \o <<";">> \o Join(<<";">>, tokens)

\* sha256 hex digest, taken to be free of collisions
hash(string) == <<"sha256">> \o string

\* repr(v) of a set of derivation paths: "set()" for the empty set, else the
\* elements between braces in the set's iteration order
repr(v) ==
  IF v = {} THEN <<"set()">>
  ELSE LET order == CHOOSE s \in [1..Cardinality(v) -> v] : SeqToSet(s) = v
       IN <<"{">> \o order \o <<"}">>

\* ast.literal_eval of the text of a cache file
literal_eval(t) ==
  IF t = <<"set()">> THEN {}
  ELSE { t[k] : k \in 2..(Len(t) - 1) }


\* cache_for that never finds a file
cache_for_never_hits(h) == <<>>

\* cache_for(h): the text of the cache file named h, <<>> (None) without one;
\* a cache file is never empty, repr writes `set()` at least
cache_for(h) == IF h \in DOMAIN cache THEN cache[h] ELSE <<>>

\* the cache after write_cache_for(h, value)
write_cache_for(h, value) ==
  [k \in DOMAIN cache \cup {h} |-> IF k = h THEN value ELSE cache[k]]

\* is_built(drv): an output path of drv exists in the store (the .drv files
\* that a dry run names are there to be read)
is_built(drv) == drv \in built

\* ------------------------------------------------------------------------
\* Command line
\* ------------------------------------------------------------------------
\* the build command of the model, as tokens
BuildCmd == << <<"n">>, <<"-", "A">> >>

\* what argparse can hand over as args.cmd
Cmds == { <<>>, BuildCmd }

Init ==
  /\ parents \in LinearHistories
  /\ refBad \in Commits
  /\ refGoods \in GoodRefs
  /\ built = {}
  /\ cache = <<>>
  /\ cwd = "repo"
  /\ tmpdir = FALSE
  /\ registered = FALSE
  /\ head = {}
  /\ pc = "start"
  /\ runs = 1
  /\ cmd = <<>>
  /\ wantCheckout = FALSE
  /\ goods = {}
  /\ commits = <<>>
  /\ n = 0
  /\ rebuilds = <<>>
  /\ i = 1
  /\ exc = "none"
  /\ pwd = "repo"
  /\ scope = "before"
  /\ weights = <<>>
  /\ ranked = FALSE
  /\ rows = <<>>
  /\ last = {}
  /\ firstRaw = <<>>
  /\ keyArgs = <<>>
  /\ keys = <<>>

\* lines 201-204: parse the arguments, leave with status 1 without a command.
\* args.checkout is read at line 273 only, and is drawn there
ParseArgs ==
  /\ pc = "start"
  /\ \E c \in Cmds :
       /\ cmd' = c
       /\ pc' = IF Len(c) = 0 THEN "exit1" ELSE "resolve"
  /\ UNCHANGED <<wantCheckout, keyVars, repoVars, envVars, rangeVars, scopeVars, oracleVars, rankVars, runs>>

\* lines 205-209: read refs/bisect/good-*, list the bisect range
ResolveRange ==
  /\ pc = "resolve"
  /\ goods' = refGoods
  /\ IF Cardinality(refGoods) >= 1
     THEN /\ commits' = get_bisect_commits(refBad, refGoods)
          /\ n' = Len(commits')
          /\ pc' = "enter"
          /\ exc' = exc
     ELSE /\ UNCHANGED <<commits, n>>
          /\ pc' = "error"
          /\ exc' = "AssertionError"
  /\ UNCHANGED <<keyVars, repoVars, envVars, argVars, scopeVars, rebuilds, i, last, firstRaw, rankVars, runs>>

\* lines 156-161: entry of `with worktree()`: temporary directory,
\* `git worktree add`, chdir.  A failing step leaves the TemporaryDirectory
\* block, which removes the directory, and the exception reaches the caller
WorktreeEnter ==
  /\ pc = "enter"
  /\ pwd' = cwd
  /\ \E outcome \in {"ok", "add_failed", "chdir_failed"} :
       \/ /\ outcome = "ok"
          /\ tmpdir' = TRUE
          /\ registered' = TRUE
          /\ cwd' = "worktree"
          /\ scope' = "inside"
          /\ exc' = exc
          /\ pc' = IF n = 0 THEN "leave" ELSE "loop"
       \/ /\ outcome = "add_failed"
          /\ tmpdir' = FALSE
          /\ registered' = FALSE
          /\ cwd' = cwd
          /\ scope' = "setup_failed"
          /\ exc' = "CalledProcessError"
          /\ pc' = "error"
       \/ /\ outcome = "chdir_failed"
          /\ tmpdir' = FALSE
          /\ registered' = TRUE
          /\ cwd' = cwd
          /\ scope' = "setup_failed"
          /\ exc' = "OSError"
          /\ pc' = "error"
  /\ i' = 1
  /\ UNCHANGED <<keyVars, repoVars, built, cache, head, argVars, rangeVars, rebuilds, last, firstRaw, rankVars, runs>>

\* the derivations of v that are not built
NotBuilt(v) == { drv \in v : ~ is_built(drv) }

\* lines 138-150 with 129-135: one iteration of the loop of line 212,
\* get_drvs(commits[i], cmd).  `out` is the set of .drv paths on the dry
\* run's stderr.  An exception leaves the loop; worktree() holds it
GetDrvs ==
  /\ pc = "loop"
  /\ LET commit == commits[i]
         h == hash(KeyString(CommitText(commit), cmd))
         t == cache_for(h)
         pair == <<commit, cmd>>
         prior == IF pair \in DOMAIN firstRaw THEN {firstRaw[pair]} ELSE {}
         Call(hit, co, ran, v, res, failed) ==
           [commit |-> commit, hit |-> hit, checkout |-> co, command |-> ran,
            raw |-> v, result |-> res, failed |-> failed, prior |-> prior,
            builtThen |-> built]
         Fail(name) == /\ exc' = name
                       /\ pc' = "leave"
                       /\ UNCHANGED <<rebuilds, i, firstRaw>>
         Return(v) ==
           /\ rebuilds' = [c \in DOMAIN rebuilds \cup {commit} |->
                             IF c = commit THEN NotBuilt(v) ELSE rebuilds[c]]
           /\ i' = i + 1
           /\ pc' = IF i + 1 > Len(commits) THEN "leave" ELSE "loop"
           /\ exc' = exc
           /\ firstRaw' = IF prior = {}
                          THEN [q \in DOMAIN firstRaw \cup {pair} |->
                                  IF q = pair THEN v ELSE firstRaw[q]]
                          ELSE firstRaw
           /\ last' = {Call(t # <<>>, t = <<>>, t = <<>>, v, {NotBuilt(v)}, "none")}
     IN IF t # <<>>
        THEN /\ cache' = cache
             /\ Return(literal_eval(t))
        ELSE \/ /\ Fail("CalledProcessError")
                /\ cache' = cache
                /\ \E ranCmd \in BOOLEAN : last' = {Call(FALSE, TRUE, ranCmd, {}, {}, "process")}
             \/ \E out \in SUBSET Drvs :
                  /\ cache' = write_cache_for(h, repr(out))
                  /\ Return(out)
  /\ UNCHANGED <<keyVars, repoVars, built, cwd, tmpdir, registered, head, argVars, rangeVars, scopeVars, rankVars, runs>>


\* lines 162-169: the exit of `with worktree()`: the TemporaryDirectory block
\* removes the directory, then chdir back, `git worktree prune` (which drops
\* the registration of a worktree whose directory is gone), then the held
\* exception
\* the exit of worktree() that drops the held exception
AfterScope_swallows(held) == IF Len(commits) = 0 THEN "rank" ELSE "estimate"

\* lines 168-169 and 214-215: a held exception is raised again and ends the
\* run; without one the program goes on to the estimation loop
AfterScope(held) ==
  IF held # "none" THEN "error"
  ELSE IF Len(commits) = 0 THEN "rank" ELSE "estimate"

WorktreeExit ==
  /\ pc = "leave"
  /\ tmpdir' = FALSE
  /\ cwd' = pwd
  /\ \E pruned \in BOOLEAN :
       IF ~ pruned
       THEN /\ registered' = registered
            /\ exc' = "CalledProcessError"
            /\ scope' = "prune_failed"
            /\ pc' = "error"
       ELSE /\ registered' = FALSE
            /\ exc' = exc
            /\ scope' = IF exc # "none" THEN "raised" ELSE "returned"
            /\ pc' = AfterScope(exc)
  /\ i' = 1
  /\ UNCHANGED <<keyVars, repoVars, built, cache, head, argVars, rangeVars, pwd, rebuilds, last, firstRaw, rankVars, runs>>

\* ------------------------------------------------------------------------
\* The cost estimate
\* ------------------------------------------------------------------------
RECURSIVE Reduce(_, _)
\* reduce(lambda a, b: a | b, (table[k] for k in cands), acc)
Reduce(sets, acc) ==
  IF sets = <<>> THEN acc ELSE Reduce(Tail(sets), acc \cup Head(sets))

\* the triples (l, x, d) with d <= 6, l <= 4, x <= 15 for which the double
\* l + x / d is the larger of the two doubles that the decompositions of the
\* same rational (d * l + x) / d round to
RoundsUp ==
  { <<0, 5, 3>>, <<0, 7, 3>>, <<0, 10, 3>>, <<0, 14, 3>>, <<1, 5, 3>>, <<1, 7, 3>>,
    <<1, 10, 3>>, <<1, 14, 3>>, <<2, 1, 3>>, <<2, 5, 3>>, <<2, 7, 3>>, <<2, 10, 3>>,
    <<2, 14, 3>>, <<3, 1, 3>>, <<3, 5, 3>>, <<3, 7, 3>>, <<3, 10, 3>>, <<3, 14, 3>>,
    <<4, 2, 3>>, <<4, 5, 3>>, <<4, 7, 3>>, <<4, 10, 3>>, <<0, 10, 6>>, <<0, 14, 6>>,
    <<1, 5, 6>>, <<1, 7, 6>>, <<1, 10, 6>>, <<1, 14, 6>>, <<2, 2, 6>>, <<2, 5, 6>>,
    <<2, 7, 6>>, <<2, 10, 6>>, <<2, 14, 6>>, <<3, 2, 6>>, <<3, 5, 6>>, <<3, 7, 6>>,
    <<3, 14, 6>>, <<4, 1, 6>>, <<4, 7, 6>> }

\* the double l + x / d, as the pair of d times its exact value and of its
\* rank among the doubles that round this value; all costs of one run have
\* the same d
Float(l, x, d) == <<d * l + x, IF <<l, x, d>> \in RoundsUp THEN 1 ELSE 0>>

FloatLess(a, b) == a[1] < b[1] \/ (a[1] = b[1] /\ a[2] < b[2])

\* lines 226-233 without the division by n
Cost_undivided(own, cg, rg, cb, rb, d) == Float(own + cg * rg + cb * rb, 0, 1)

\* the weights of the two branches exchanged
Cost_swapped(own, cg, rg, cb, rb, d) == Float(own, cg * rb + cb * rg, d)

\* lines 226-233: w
Cost(own, cg, rg, cb, rb, d) == Float(own, cg * rg + cb * rb, d)

\* lines 216-243: the tuple appended to weights for `commit`, from the
\* rebuild table `table`
EntryOf(commit, table) ==
  LET candidates_if_good == get_bisect_commits(refBad, goods \cup {commit})
      candidates_if_bad == get_bisect_commits(commit, goods)
      rebuilds_if_good ==
        Cardinality(Reduce([k \in DOMAIN candidates_if_good |-> table[candidates_if_good[k]]], {})
                    \ table[commit])
      rebuilds_if_bad ==
        Cardinality(Reduce([k \in DOMAIN candidates_if_bad |-> table[candidates_if_bad[k]]], {})
                    \ table[commit])
      w == Cost(Cardinality(table[commit]), Len(candidates_if_good), rebuilds_if_good,
                Len(candidates_if_bad), rebuilds_if_bad, n)
  IN <<w, commit, Len(candidates_if_good), Len(candidates_if_bad),
       rebuilds_if_good, rebuilds_if_bad>>

\* the commits whose rebuild set an iteration for `commit` looks up
Lookups(commit) ==
  {commit} \cup SeqToSet(get_bisect_commits(refBad, goods \cup {commit}))
           \cup SeqToSet(get_bisect_commits(commit, goods))

\* lines 214-243: the estimation loop, one tuple per commit of `commits` in
\* their order; a lookup of a commit without a rebuild set ends the run
EstimateStep ==
  /\ pc = "estimate"
  /\ IF \A k \in DOMAIN commits : Lookups(commits[k]) \subseteq DOMAIN rebuilds
     THEN /\ weights' = [k \in DOMAIN commits |-> EntryOf(commits[k], rebuilds)]
          /\ pc' = "rank"
          /\ exc' = exc
     ELSE /\ weights' = weights
          /\ pc' = "error"
          /\ exc' = "KeyError"
  /\ UNCHANGED <<keyVars, repoVars, envVars, argVars, rangeVars, scopeVars, rebuilds, i, last, firstRaw, ranked, rows, runs>>

\* comparison by the cost alone
TupleLess_cost_only(a, b) == FloatLess(a[1], b[1])

\* Python's < on the tuples of weights: the first differing field decides
TupleLess(a, b) ==
  \/ FloatLess(a[1], b[1])
  \/ /\ a[1] = b[1]
     /\ \E k \in 2..6 : a[k] < b[k] /\ \A m \in 2..(k - 1) : a[m] = b[m]

RECURSIVE Insert(_, _)
\* e inserted after the entries of the sorted list that are not larger
Insert(e, sorted) ==
  IF sorted = <<>> THEN <<e>>
  ELSE IF TupleLess(e, Head(sorted)) THEN <<e>> \o sorted
  ELSE <<Head(sorted)>> \o Insert(e, Tail(sorted))

RECURSIVE Sort(_)
\* list.sort(): stable, ascending
Sort(list) ==
  IF list = <<>> THEN <<>>
  ELSE Insert(list[Len(list)], Sort(SubSeq(list, 1, Len(list) - 1)))

TopRows == 5

\* lines 255-272: the printed row of an entry; int(score) truncates
Row(e) == <<e[2], e[1][1] \div n, Cardinality(rebuilds[e[2]]), e[3], e[5], e[4], e[6]>>

\* lines 244-272: sort, print the header and the first five entries
Rank ==
  /\ pc = "rank"
  /\ weights' = Sort(weights)
  /\ ranked' = TRUE
  /\ rows' = [k \in 1..(IF Len(weights) < TopRows THEN Len(weights) ELSE TopRows) |->
                Row(weights'[k])]
  /\ pc' = "checkout"
  /\ UNCHANGED <<keyVars, repoVars, envVars, argVars, rangeVars, scopeVars, oracleVars, runs>>

\* lines 273-274: with --checkout, git checkout weights[0][1]
Checkout ==
  /\ pc = "checkout"
  /\ \E flag \in BOOLEAN :
       /\ wantCheckout' = flag
       /\ IF ~ flag
          THEN /\ pc' = "done"
               /\ UNCHANGED <<head, exc>>
          ELSE IF weights = <<>>
          THEN /\ exc' = "IndexError"
               /\ pc' = "error"
               /\ head' = head
          ELSE \E ok \in BOOLEAN :
                 IF ok
                 THEN /\ head' = {weights[1][2]}
                      /\ pc' = "done"
                      /\ exc' = exc
                 ELSE /\ head' = head
                      /\ pc' = "error"
                      /\ exc' = "CalledProcessError"
  /\ UNCHANGED <<keyVars, repoVars, built, cache, cwd, tmpdir, registered, cmd, rangeVars, scopeVars,
                 rebuilds, i, last, firstRaw, rankVars, runs>>

\* ------------------------------------------------------------------------
\* The environment
\* ------------------------------------------------------------------------
\* an output path appears in the store (a build) or leaves it (a garbage
\* collection) before or between the runs of the program; the tables that
\* a change during a run can produce are those of SpecEstimate
StoreChanges ==
  /\ pc = "start"
  /\ \E drv \in Drvs :
       built' = IF drv \in built THEN built \ {drv} ELSE built \cup {drv}
  /\ UNCHANGED <<keyVars, repoVars, cache, cwd, tmpdir, registered, head, argVars, rangeVars, scopeVars,
                 oracleVars, rankVars, pc, runs>>

\* the user starts the program again: a new process in the same repository,
\* with the cache directory and the store as the last run left them.
\* tmpdir, registered and head describe the worktree and the checkout of the
\* running process and start afresh
Rerun ==
  /\ pc \in {"done", "error", "exit1"}
  /\ runs < MaxRuns
  /\ runs' = runs + 1
  /\ pc' = "start"
  /\ cwd' = "repo"
  /\ cmd' = <<>>
  /\ wantCheckout' = FALSE
  /\ goods' = {}
  /\ commits' = <<>>
  /\ n' = 0
  /\ rebuilds' = <<>>
  /\ i' = 1
  /\ exc' = "none"
  /\ pwd' = "repo"
  /\ scope' = "before"
  /\ weights' = <<>>
  /\ ranked' = FALSE
  /\ rows' = <<>>
  /\ last' = {}
  /\ tmpdir' = FALSE
  /\ registered' = FALSE
  /\ head' = {}
  /\ UNCHANGED <<keyVars, repoVars, built, cache, firstRaw>>

Next ==
  \/ ParseArgs
  \/ ResolveRange
  \/ WorktreeEnter
  \/ GetDrvs
  \/ WorktreeExit
  \/ EstimateStep
  \/ Rank
  \/ Checkout
  \/ StoreChanges
  \/ Rerun

Spec == Init /\ [][Next]_vars

\* ------------------------------------------------------------------------
\* The estimator alone: lines 214-274 from every history, every pair of
\* bisect refs and every rebuild table over the range
\* ------------------------------------------------------------------------
InitEstimate ==
  /\ parents \in Histories
  /\ refBad \in Commits
  /\ refGoods \in { g \in GoodRefs : g # {} }
  /\ built = {}
  /\ cache = <<>>
  /\ cwd = "repo"
  /\ tmpdir = FALSE
  /\ registered = FALSE
  /\ head = {}
  /\ runs = 1
  /\ cmd = BuildCmd
  /\ wantCheckout = FALSE
  /\ goods = refGoods
  /\ commits = get_bisect_commits(refBad, refGoods)
  /\ n = Len(commits)
  /\ rebuilds \in [SeqToSet(commits) -> SUBSET Drvs]
  /\ i = 1
  /\ exc = "none"
  /\ pwd = "repo"
  /\ scope = "returned"
  /\ weights = <<>>
  /\ ranked = FALSE
  /\ rows = <<>>
  /\ last = {}
  /\ firstRaw = <<>>
  /\ keyArgs = <<>>
  /\ keys = <<>>
  /\ pc = IF n = 0 THEN "rank" ELSE "estimate"

NextEstimate ==
  \/ EstimateStep
  \/ Rank
  \/ Checkout

SpecEstimate == InitEstimate /\ [][NextEstimate]_vars


\* ------------------------------------------------------------------------
\* The cache key alone: line 143 applied to two (commit, command) pairs
\* ------------------------------------------------------------------------
\* the characters of a command token: a letter and the separator of the key
TokenChars == {"a", ";"}

Tokens == UNION { [1..k -> TokenChars] : k \in 0..MaxTokenLen }

\* argparse.REMAINDER with one token or more (line 202 refuses none)
KeyCmds == UNION { [1..k -> Tokens] : k \in 1..MaxTokens }

KeyCommits == {1, 2}

InitKey ==
  /\ parents \in LinearHistories
  /\ refBad = NumCommits
  /\ refGoods = {1}
  /\ built = {}
  /\ cache = <<>>
  /\ cwd = "repo"
  /\ tmpdir = FALSE
  /\ registered = FALSE
  /\ head = {}
  /\ pc = "key"
  /\ runs = 1
  /\ cmd = <<>>
  /\ wantCheckout = FALSE
  /\ goods = {}
  /\ commits = <<>>
  /\ n = 0
  /\ rebuilds = <<>>
  /\ i = 1
  /\ exc = "none"
  /\ pwd = "repo"
  /\ scope = "before"
  /\ weights = <<>>
  /\ ranked = FALSE
  /\ rows = <<>>
  /\ last = {}
  /\ firstRaw = <<>>
  /\ keyArgs \in (KeyCommits \X KeyCmds) \X (KeyCommits \X KeyCmds)
  /\ keys = <<>>

\* line 143 for both pairs: the names of their cache files
ComputeKeys ==
  /\ pc = "key"
  /\ keys = <<>>
  /\ keys' = [k \in 1..2 |-> hash(KeyString(CommitText(keyArgs[k][1]), keyArgs[k][2]))]
  /\ UNCHANGED <<keyArgs, repoVars, envVars, argVars, rangeVars, scopeVars, oracleVars, rankVars, pc, runs>>

NextKey == ComputeKeys

SpecKey == InitKey /\ [][NextKey]_vars


\* ------------------------------------------------------------------------
\* Properties
\* ------------------------------------------------------------------------
\* Range(bad, goods) of the design: the ancestors of bad that are ancestors
\* of no good boundary, bad excluded
RangeSet(bad, gds) == (Ancestors({bad}) \ Ancestors(gds)) \ {bad}

\* the union of the rebuild sets of the commits of S, less that of commit C
Additional(S, C) == Cardinality(UNION { rebuilds[D] : D \in S } \ rebuilds[C])

\* the estimation loop has run to its end
LoopDone == pc = "rank"

\* C1: for a non-empty range and a table with an entry per commit of the
\* range, the estimation loop leaves exactly one entry per commit of the
\* range, and the cost of each entry is non-negative and at least the size of
\* the commit's own rebuild set
C1_OneEntryPerCommit ==
  (LoopDone /\ RangeSet(refBad, refGoods) # {}) =>
     /\ Len(weights) = Cardinality(RangeSet(refBad, refGoods))
     /\ { weights[k][2] : k \in DOMAIN weights } = RangeSet(refBad, refGoods)
     /\ \A k \in DOMAIN weights :
          /\ weights[k][1][1] >= 0
          /\ ~ FloatLess(weights[k][1], Float(Cardinality(rebuilds[weights[k][2]]), 0, n))

C1_Witness ==
  /\ pc = "rank"
  /\ Len(weights) >= 3
  /\ \E k \in DOMAIN weights :
       FloatLess(Float(Cardinality(rebuilds[weights[k][2]]), 0, n), weights[k][1])

\* C2: n * cost(C) = n * |table[C]| + |candidatesIfGood| * rebuildsIfGood
\* + |candidatesIfBad| * rebuildsIfBad for every entry, the sub-ranges and
\* the rebuild counts being those of the design; an empty sub-range
\* contributes no rebuild, and with both sub-ranges empty the cost is
\* |table[C]| exactly
C2_CostFormula ==
  pc = "rank" => \A k \in DOMAIN weights :
    LET C == weights[k][2]
        G == RangeSet(refBad, goods \cup {C})
        B == RangeSet(C, goods)
    IN /\ weights[k][1][1] = n * Cardinality(rebuilds[C])
                               + Cardinality(G) * Additional(G, C)
                               + Cardinality(B) * Additional(B, C)
       /\ weights[k][3] = Cardinality(G)
       /\ weights[k][4] = Cardinality(B)
       /\ weights[k][5] = Additional(G, C)
       /\ weights[k][6] = Additional(B, C)
       /\ (G = {} => weights[k][5] = 0)
       /\ (B = {} => weights[k][6] = 0)
       /\ ((G = {} /\ B = {}) => weights[k][1] = <<n * Cardinality(rebuilds[C]), 0>>)
       /\ (rebuilds[C] = {} =>
             weights[k][1][1] = Cardinality(G) * Additional(G, C)
                                  + Cardinality(B) * Additional(B, C))

C2_Witness ==
  /\ \E k \in DOMAIN weights :
       /\ weights[k][3] >= 1 /\ weights[k][5] >= 1
       /\ weights[k][4] >= 1 /\ weights[k][6] >= 1
       /\ rebuilds[weights[k][2]] # {}
  /\ \E k \in DOMAIN weights :
       /\ weights[k][3] = 0 /\ weights[k][4] >= 1 /\ weights[k][6] >= 1

\* C3: after the sort the list is ascending by cost, two entries of equal
\* cost are in the order of their commit identifiers, and the commit that
\* --checkout checks out is the first entry, whose cost no entry undercuts
C3_RankingOrder ==
  /\ ranked =>
       \A k, m \in DOMAIN weights :
         k < m => \/ FloatLess(weights[k][1], weights[m][1])
                  \/ /\ weights[k][1] = weights[m][1]
                     /\ weights[k][2] < weights[m][2]
  /\ (pc = "done" /\ wantCheckout) =>
       /\ head = {weights[1][2]}
       /\ \A k \in DOMAIN weights : ~ FloatLess(weights[k][1], weights[1][1])

C3_Witness ==
  /\ pc = "done"
  /\ wantCheckout
  /\ \E k \in DOMAIN weights :
       /\ k + 1 \in DOMAIN weights
       /\ weights[k][1] = weights[k + 1][1]
  /\ \E k \in DOMAIN weights : FloatLess(weights[1][1], weights[k][1])

\* C4: with an empty range the run stops with an error before the
\* estimation loop: no ranking is printed and no checkout is attempted
C4_EmptyRangeIsRejected ==
  (pc \in {"estimate", "rank", "checkout", "done"} \/ ranked) => Len(commits) >= 1

\* C5: a call of get_drvs for a (commit, command) pair that an earlier call
\* has completed runs no git checkout and no command, and what it returns is
\* the raw set of the earlier call less the derivations built at the time of
\* this call
C5_CacheHit ==
  \A r \in last :
    r.prior # {} =>
      /\ r.hit
      /\ ~ r.checkout
      /\ ~ r.command
      /\ \A p \in r.prior :
           /\ r.raw = p
           /\ \A res \in r.result : res = { drv \in p : drv \notin r.builtThen }

C5_Witness ==
  \E r \in last :
    \E p \in r.prior, res \in r.result :
      /\ res # p
      /\ res # {}

\* a call of get_drvs whose git checkout or dry run failed
ProcessFailed(r) == r.failed = "process"

\* C6: when the git checkout or the dry run of a call fails, the run ends in
\* an error, with no cache file for the key of the call and no ranking, and
\* the failing call leaves the cache files of earlier calls as they were
C6_FailedCallAborts ==
  /\ [](\A r \in last :
          ProcessFailed(r) =>
            /\ pc \in {"leave", "error"}
            /\ exc # "none"
            /\ hash(KeyString(CommitText(r.commit), cmd)) \notin DOMAIN cache
            /\ weights = <<>>
            /\ ~ ranked
            /\ rows = <<>>
            /\ \A c \in DOMAIN rebuilds :
                 hash(KeyString(CommitText(c), cmd)) \in DOMAIN cache)
  /\ [][(\E r \in last' : ProcessFailed(r)) => cache' = cache]_vars

C6_Witness ==
  /\ pc = "error"
  /\ \E r \in last : ProcessFailed(r) /\ r.command
  /\ DOMAIN rebuilds # {}
  /\ scope = "raised"

\* C7: two (commit, command) pairs with the same key are the same pair
C7_KeyUnambiguous ==
  (keys # <<>> /\ keys[1] = keys[2]) => keyArgs[1] = keyArgs[2]

\* the worktree() block has handed control back on one of these paths:
\* normal end of the loop, exception in the loop, failed setup step
ScopeLeft == scope \in {"returned", "raised", "setup_failed"}

\* C8: once worktree() has handed control back, the temporary directory is
\* gone, no registration of the worktree remains, the working directory is
\* the one of entry, and an exception of the loop has reached the caller
C8_ScopeCleansUp ==
  ScopeLeft =>
    /\ ~ tmpdir
    /\ ~ registered
    /\ cwd = pwd
    /\ (scope = "raised" => pc = "error" /\ exc # "none")

\* C9: a larger table[C], all else equal, never gives C a smaller cost
C9_Monotone ==
  pc = "rank" => \A k \in DOMAIN weights :
    LET C == weights[k][2]
    IN \A S \in SUBSET Drvs :
         rebuilds[C] \subseteq S =>
           ~ FloatLess(EntryOf(C, [rebuilds EXCEPT ![C] = S])[1], weights[k][1])

C9_Witness ==
  \E k \in DOMAIN weights :
    LET C == weights[k][2]
    IN /\ weights[k][3] + weights[k][4] >= 2
       /\ \E S \in SUBSET Drvs :
            /\ rebuilds[C] \subseteq S
            /\ S # rebuilds[C]
            /\ EntryOf(C, [rebuilds EXCEPT ![C] = S])[5] < weights[k][5]
            /\ EntryOf(C, [rebuilds EXCEPT ![C] = S])[6] < weights[k][6]

\* C10: for every commit C of the range the two hypothetical sub-ranges are
\* disjoint subsets of the range without C, so that every lookup of the
\* estimation loop finds its entry and the sub-ranges have n - 1 commits at
\* most between them
C10_SubRanges ==
  /\ exc # "KeyError"
  /\ pc = "rank" => \A C \in SeqToSet(commits) :
       LET G == get_bisect_commits(refBad, goods \cup {C})
           B == get_bisect_commits(C, goods)
       IN /\ SeqToSet(G) \cap SeqToSet(B) = {}
          /\ SeqToSet(G) \cup SeqToSet(B) \subseteq SeqToSet(commits) \ {C}
          /\ Len(G) + Len(B) <= n - 1
          /\ SeqToSet(G) = RangeSet(refBad, goods \cup {C})
          /\ SeqToSet(B) = RangeSet(C, goods)
          /\ Lookups(C) \subseteq DOMAIN rebuilds

C10_Witness ==
  /\ pc = "rank"
  /\ \E C \in SeqToSet(commits) :
       /\ Len(get_bisect_commits(refBad, goods \cup {C})) >= 1
       /\ Len(get_bisect_commits(C, goods)) >= 1
  /\ \E C \in SeqToSet(commits) : parents[C] \cap SeqToSet(commits) # {} /\ Cardinality(parents[C]) = 2

====
